---------------------------- MODULE Spec2Model ----------------------------
(***************************************************************************)
(* A state-machine model of the ETAS catalog simulation engine             *)
(* (src/etas/simulation.py): the orchestrator ETASSimulation (prepare,     *)
(* the lazy simulate generator, the csv/dat drains), the branching         *)
(* simulator simulate_catalog, and the use the code makes of the global    *)
(* random source.                                                          *)
(*                                                                         *)
(* Units.  Magnitudes are integers in thousandths of a magnitude unit      *)
(* (2000 is M 2.0, a bin width of 0.1 is 100).  Times are integers in      *)
(* days.  Latitudes and longitudes are integers in degrees.                *)
(*                                                                         *)
(* Python's None is the empty sequence; a value v that may also be None    *)
(* is held as the one-element sequence <<v>>.                              *)
(***************************************************************************)
EXTENDS Integers, Sequences, FiniteSets, TLC

VARIABLES
    \* ---- ETASSimulation (the orchestrator object) ----
    inversion_params,   \* self.inversion_params: the loaded parameter object
    catalog,            \* self.catalog: None, or the merged source catalog
    source_events,      \* self.source_events: None, or the copied sources
    target_events,      \* self.target_events: None, or the filtered targets
    simulation_end,     \* self.simulation_end: None, or the window end
    prepare_result,     \* outcome of the last prepare() call
    \* ---- one simulate(...) generator and the drain that consumes it ----
    pc,                 \* position of the generator
    n_simulations,      \* arguments of the call
    chunksize,
    m_threshold,
    forecast_n_days,
    sim_id,             \* loop variable of simulate
    simulations,        \* the accumulation buffer (rows)
    buffered,           \* history: realization ids accumulated in the buffer
    drawn,              \* history: the catalogs simulate_catalog returned
    chunks,             \* history: the chunks yielded so far
    file,               \* the output file fn_store, a sequence of lines
    written,            \* number of chunks the drain has written
    \* ---- one call of simulate_catalog (the branching simulator) ----
    sc_auxiliary,       \* the argument auxiliary_catalog: None, or its rows
    sc_filter_polygon,  \* the argument filter_polygon
    sc_sim_id,          \* sim_id of the simulate loop that makes the call
    sc_catalog,         \* the local DataFrame `catalog`, a sequence of events
    sc_generation,      \* the local `generation`
    sc_pc,              \* "idle", "ACCUMULATING", "DONE" or "returned"
    sc_sources,         \* history: the ids of the sources of each call of
                        \* generate_aftershocks, one entry per call
    \* ---- the global numpy random source, over two runs of sim_catalog ----
    rng,                \* state of np.random
    sd_seed,            \* the seed argument of sim_catalog
    sd_density,         \* whether a background density is supplied
    sd_run,             \* which of the two runs is executing
    sd_pc,              \* position inside the run
    sd_out,             \* history: the draws each run turned into output
    \* ---- one call of inverse_upper_gamma_ext(a, y) ----
    iug_a,              \* the argument a, the shape parameter
    iug_y,              \* the argument y, a batch of samples
    iug_result,         \* the local array `result`
    iug_idx,            \* position of the fallback loop in nan_idxs
    iug_origin,         \* history: how each entry of result was obtained
    iug_pc,             \* position inside the call
    \* ---- one call of simulate_to_df ----
    df_args,            \* history: None, or the arguments the caller gave
    store,              \* the local DataFrame `store`
    \* ---- one call of generate_aftershocks ----
    ga_sources,         \* the argument sources
    ga_auxiliary_end,   \* the argument auxiliary_end: None, or the cutoff
    ga_polygon,         \* the argument polygon: None, or the polygon
    ga_candidates,      \* history: the frame after lines 292-302
    ga_located,         \* history: the frame after the time queries, located
    ga_rows,            \* history: the frame after the polygon test
    ga_returned,        \* the returned frame
    ga_pc,              \* position of the call
    \* ---- one call of generate_background_events ----
    bg_probs,           \* the argument background_probs is not None
    bg_start,           \* the argument timewindow_start
    bg_n_background,    \* n_background, the Poisson draw
    bg_catalog,         \* the local frame `catalog`: the current batch
    bg_retried,         \* history: the while loop drew a batch
    bg_returned,        \* the returned frame
    bg_pc               \* position of the call

orchVars == <<inversion_params, catalog, source_events, target_events,
              simulation_end, prepare_result>>
genVars  == <<pc, n_simulations, chunksize, m_threshold, forecast_n_days,
              sim_id, simulations, buffered, drawn, chunks, file, written>>
catArgs  == <<sc_auxiliary, sc_filter_polygon, sc_sim_id>>
catVars  == <<catArgs, sc_catalog, sc_generation, sc_pc, sc_sources>>
seedVars == <<rng, sd_seed, sd_density, sd_run, sd_pc, sd_out>>
iugVars  == <<iug_a, iug_y, iug_result, iug_idx, iug_origin, iug_pc>>
dfVars   == <<df_args, store>>
gaVars   == <<ga_sources, ga_auxiliary_end, ga_polygon, ga_candidates,
              ga_located, ga_rows, ga_returned, ga_pc>>
bgVars   == <<bg_probs, bg_start, bg_n_background, bg_catalog, bg_retried,
              bg_returned, bg_pc>>
vars == <<orchVars, genVars, catVars, seedVars, iugVars, dfVars, gaVars,
          bgVars>>

(* What the steps of one part of the program leave alone.                    *)
notOrch == <<catVars, seedVars, iugVars, dfVars, gaVars, bgVars>>
notCat  == <<orchVars, genVars, seedVars, iugVars, dfVars, gaVars, bgVars>>
notSeed == <<orchVars, genVars, catVars, iugVars, dfVars, gaVars, bgVars>>
notIug  == <<orchVars, genVars, catVars, seedVars, dfVars, gaVars, bgVars>>
notDf   == <<catVars, seedVars, iugVars, gaVars, bgVars>>
notGa   == <<orchVars, genVars, catVars, seedVars, iugVars, dfVars, bgVars>>
notBg   == <<orchVars, genVars, catVars, seedVars, iugVars, dfVars, gaVars>>

None == <<>>
Some(v) == <<v>>
Val(o) == o[1]

-----------------------------------------------------------------------------
(* Bounds of the model *)
MaxSims == 3
MaxChunk == 2
MaxDays == 2
MaxSources == 2
MaxCatalogRows == 2
RngMod == 4
MaxSeed == 2
MaxAux == 2
MaxBackground == 2
MaxOffspring == 2
MaxEvents == 4
MaxBatch == 3

(* The scenario: values of the loaded parameter object *)
m_ref == 2000
auxiliary_start == 0
primary_start == 2
DeltaMs == {10, 100}
shape_coords == << <<0, 0>>, <<0, 2>>, <<2, 2>>, <<2, 0>> >>

-----------------------------------------------------------------------------
(* Sequence helpers *)
RECURSIVE Flatten(_)
Flatten(ss) == IF ss = <<>> THEN <<>> ELSE Head(ss) \o Flatten(Tail(ss))

Abs(x) == IF x < 0 THEN -x ELSE x

RECURSIVE MinOf(_)
MinOf(S) ==
    LET x == CHOOSE y \in S : TRUE
    IN  IF S = {x} THEN x
        ELSE LET m == MinOf(S \ {x}) IN IF x <= m THEN x ELSE m

RECURSIVE MaxOf(_)
MaxOf(S) ==
    LET x == CHOOSE y \in S : TRUE
    IN  IF S = {x} THEN x
        ELSE LET m == MaxOf(S \ {x}) IN IF x >= m THEN x ELSE m

Range(s) == {s[i] : i \in 1..Len(s)}

RECURSIVE SumSeq(_)
SumSeq(q) == IF q = <<>> THEN 0 ELSE Head(q) + SumSeq(Tail(q))

-----------------------------------------------------------------------------
(* Geometry: the polygon of the scenario is an axis-parallel rectangle, so   *)
(* shapely's intersects(point) is containment in the closed rectangle (a     *)
(* point on the boundary intersects).  points_from_xy(latitude, longitude)   *)
(* puts the latitude on the first axis, as shape_coords does.                *)
polygon == shape_coords

Intersects(lat, lon, poly) ==
    /\ MinOf({c[1] : c \in Range(poly)}) <= lat
    /\ lat <= MaxOf({c[1] : c \in Range(poly)})
    /\ MinOf({c[2] : c \in Range(poly)}) <= lon
    /\ lon <= MaxOf({c[2] : c \in Range(poly)})

-----------------------------------------------------------------------------
(* etas.inversion.round_half_up(n, decimals): n rounded to `decimals`        *)
(* decimal places, ties towards plus infinity.  In thousandths the unit of   *)
(* the last kept place is 1000 / 10^decimals.                                *)
RECURSIVE Pow10(_)
Pow10(k) == IF k = 0 THEN 1 ELSE 10 * Pow10(k - 1)

round_half_up(n, decimals) ==
    LET unit == 1000 \div Pow10(decimals)
    IN  unit * ((2 * n + unit) \div (2 * unit))

-----------------------------------------------------------------------------
(* ETASSimulation.prepare                                                    *)

(* The value pandas puts in the right-hand columns of a left merge's row     *)
(* that found no partner, and the minimum of a column without numbers.       *)
NaN == -1

(* pd.merge(left, right, left_index, right_index, how='left'): every left    *)
(* row, in order, joined with every right row of the same index; a left row  *)
(* without partner is kept once, its right-hand columns NaN.                 *)
RECURSIVE merge_left(_, _)
merge_left(left, right) ==
    IF left = <<>> THEN <<>>
    ELSE LET l == Head(left)
             partners == SelectSeq(right, LAMBDA r : r.index = l.index)
             joined == IF partners = <<>>
                       THEN << [index |-> l.index, xi_plus_1 |-> l.xi_plus_1,
                                time |-> NaN, magnitude |-> NaN] >>
                       ELSE [k \in 1..Len(partners) |->
                               [index |-> l.index, xi_plus_1 |-> l.xi_plus_1,
                                time |-> partners[k].time,
                                magnitude |-> partners[k].magnitude]]
         IN  joined \o merge_left(Tail(left), right)

(* Series.min(): the smallest number of the column, NaN entries skipped;     *)
(* NaN when there is none.                                                   *)
magnitude_min(rows) ==
    LET ms == {rows[i].magnitude : i \in 1..Len(rows)} \ {NaN}
    IN  IF ms = {} THEN NaN ELSE MinOf(ms)

(* np.testing.assert_allclose(actual, desired) with its defaults rtol=1e-7,  *)
(* atol=0: passes iff |actual - desired| <= 1e-7 * |desired|; a NaN on one   *)
(* side only fails.                                                          *)
allclose(actual, desired) ==
    /\ actual # NaN
    /\ 10000000 * Abs(actual - desired) <= Abs(desired)

(* self.source_events: a copy of the supplied sources, xi_plus_1 set to 1    *)
(* when the column is missing.                                               *)
copy_sources(src) ==
    [k \in 1..Len(src) |->
        [index |-> src[k].index,
         xi_plus_1 |-> IF "xi_plus_1" \in DOMAIN src[k]
                       THEN src[k].xi_plus_1 ELSE 1]]

(* A variant of filter_targets with a strict magnitude comparison.           *)
filter_targets_strict(targets, dm) ==
    SelectSeq(targets, LAMBDA t :
        /\ 2 * t.magnitude > 2 * m_ref - dm
        /\ Intersects(t.latitude, t.longitude, polygon))

(* The query and the polygon test that build self.target_events.             *)
filter_targets(targets, dm) ==
    SelectSeq(targets, LAMBDA t :
        /\ 2 * t.magnitude >= 2 * m_ref - dm
        /\ Intersects(t.latitude, t.longitude, polygon))

Prepare ==
    /\ pc = "idle"
    /\ LET src == copy_sources(inversion_params.source_events)
           merged == merge_left(src, inversion_params.catalog)
       IN  /\ source_events' = Some(src)
           /\ catalog' = Some(merged)
           /\ IF Len(merged) # Len(src)
              THEN /\ prepare_result' = "AssertionError"
                   /\ UNCHANGED target_events
              ELSE IF ~ allclose(magnitude_min(merged), m_ref)
              THEN /\ prepare_result' = "AssertionError"
                   /\ UNCHANGED target_events
              ELSE /\ prepare_result' = "ok"
                   /\ target_events' =
                        Some(filter_targets(inversion_params.target_events,
                                            inversion_params.delta_m))
    /\ UNCHANGED <<inversion_params, simulation_end, genVars, notOrch>>

-----------------------------------------------------------------------------
(* ETASSimulation.simulate: a generator.  One Realize step is one pass of    *)
(* the loop body up to the yield (or to the end of the body when nothing is  *)
(* yielded); Resume is the statement after the yield.                        *)

(* continuation["catalog_id"] = sim_id.  sim_magnitude is a history field:   *)
(* the magnitude as simulated, which the rounding of `magnitude` overwrites. *)
tag(continuation, id) ==
    [k \in 1..Len(continuation) |->
        [time |-> continuation[k].time,
         magnitude |-> continuation[k].magnitude,
         sim_magnitude |-> continuation[k].magnitude,
         latitude |-> continuation[k].latitude,
         longitude |-> continuation[k].longitude,
         catalog_id |-> id]]

(* A variant of m_cut2 that cuts at the threshold itself.                    *)
m_cut2_at_threshold(mt, dm) == 2 * (IF mt = None THEN m_ref ELSE Val(mt))

(* m_cut = m_threshold - delta_m / 2, doubled to stay in the integers.       *)
m_cut2(mt, dm) == 2 * (IF mt = None THEN m_ref ELSE Val(mt)) - dm

(* The query on time and magnitude.                                           *)
query_window(rows, mt, dm, s_end) ==
    SelectSeq(rows, LAMBDA r :
        /\ r.time >= primary_start
        /\ r.time <= s_end
        /\ 2 * r.magnitude >= m_cut2(mt, dm))

(* simulations.magnitude = round_half_up(simulations.magnitude, 1)           *)
round_magnitudes(rows) ==
    [k \in 1..Len(rows) |->
        [rows[k] EXCEPT !.magnitude = round_half_up(rows[k].magnitude, 1)]]

(* simulations[simulations.intersects(self.polygon)]                         *)
filter_polygon(rows) ==
    SelectSeq(rows, LAMBDA r : Intersects(r.latitude, r.longitude, polygon))

(* What the emission does to the buffer.                                     *)
emit(rows, mt, dm, s_end) ==
    filter_polygon(round_magnitudes(query_window(rows, mt, dm, s_end)))

(* simulations[cols]: catalog_id is a column of the output unless            *)
(* n_simulations = 1.                                                        *)
select_cols(rows, n) ==
    [k \in 1..Len(rows) |->
        [time |-> rows[k].time,
         magnitude |-> rows[k].magnitude,
         sim_magnitude |-> rows[k].sim_magnitude,
         latitude |-> rows[k].latitude,
         longitude |-> rows[k].longitude,
         catalog_id |-> IF n # 1 THEN Some(rows[k].catalog_id) ELSE None]]

(* A variant of emits that forgets the final realization.                    *)
emits_without_final(id, n, c) == id % c = 0

(* The test that decides whether this pass of the loop yields.               *)
emits(id, n, c) == id % c = 0 \/ id = n - 1

(* The call simulate(n, d, mt, c) made by a drain.  The body runs up to the  *)
(* loop; with n = 0 the generator ends at once and the drain's               *)
(* next(generator) raises StopIteration.                                     *)
simulate_call(n, d, mt, c) ==
    /\ pc = "idle"
    /\ n_simulations' = n
    /\ forecast_n_days' = d
    /\ m_threshold' = mt
    /\ chunksize' = c
    /\ simulation_end' = IF simulation_end = None
                         THEN Some(primary_start + d) ELSE simulation_end
    /\ simulations' = <<>>
    /\ buffered' = <<>>
    /\ sim_id' = 0
    /\ pc' = IF n > 0 THEN "loop" ELSE "StopIteration"
    /\ UNCHANGED <<inversion_params, catalog, source_events, target_events,
                   prepare_result, drawn, chunks, file, written>>

Simulate(n, d, mt, c) ==
    /\ simulate_call(n, d, mt, c)
    /\ UNCHANGED notOrch

Realize(continuation) ==
    /\ pc = "loop"
    /\ LET buf == simulations \o tag(continuation, sim_id)
           out == emit(buf, m_threshold, inversion_params.delta_m,
                       Val(simulation_end))
       IN  /\ drawn' = Append(drawn, continuation)
           /\ IF emits(sim_id, n_simulations, chunksize)
              THEN /\ simulations' = out
                   /\ buffered' = Append(buffered, sim_id)
                   /\ chunks' = Append(chunks,
                        [rows |-> select_cols(out, n_simulations),
                         sims |-> Append(buffered, sim_id)])
                   /\ pc' = "yielded"
                   /\ UNCHANGED sim_id
              ELSE /\ simulations' = buf
                   /\ buffered' = Append(buffered, sim_id)
                   /\ sim_id' = sim_id + 1
                   /\ pc' = IF sim_id + 1 < n_simulations
                            THEN "loop" ELSE "done"
                   /\ UNCHANGED chunks
    /\ UNCHANGED <<notOrch, orchVars, n_simulations, chunksize, m_threshold,
                   forecast_n_days, file, written>>

(* A variant of Resume that does not reset the buffer.                       *)
ResumeKeepingBuffer ==
    /\ pc = "written"
    /\ sim_id' = sim_id + 1
    /\ pc' = IF sim_id + 1 < n_simulations THEN "loop" ELSE "done"
    /\ UNCHANGED <<notOrch, orchVars, n_simulations, chunksize, m_threshold,
                   forecast_n_days, simulations, buffered, drawn, chunks,
                   file, written>>

(* simulations = pd.DataFrame(), then the next pass of the loop.             *)
Resume ==
    /\ pc = "written"
    /\ simulations' = <<>>
    /\ buffered' = <<>>
    /\ sim_id' = sim_id + 1
    /\ pc' = IF sim_id + 1 < n_simulations THEN "loop" ELSE "done"
    /\ UNCHANGED <<notOrch, orchVars, n_simulations, chunksize, m_threshold,
                   forecast_n_days, drawn, chunks, file, written>>

-----------------------------------------------------------------------------
(* simulate_to_csv / simulate_to_dat: the drain.  Both run the same two      *)
(* statements: the first chunk is written with mode 'w' and the header, each *)
(* later one with mode 'a' and no header.                                    *)
header_line == [kind |-> "header"]
stale_line == [kind |-> "stale"]
row_lines(rows) == [k \in 1..Len(rows) |-> [kind |-> "row", row |-> rows[k]]]

to_csv(old, rows, mode, header) ==
    (IF mode = "w" THEN <<>> ELSE old)
        \o (IF header THEN <<header_line>> ELSE <<>>)
        \o row_lines(rows)

(* A variant of Write that opens the file with mode 'w' for every chunk.     *)
WriteTruncating ==
    /\ pc = "yielded"
    /\ file' = to_csv(file, chunks[Len(chunks)].rows, "w", TRUE)
    /\ written' = written + 1
    /\ pc' = "written"
    /\ UNCHANGED <<notOrch, orchVars, n_simulations, chunksize, m_threshold,
                   forecast_n_days, sim_id, simulations, buffered, drawn,
                   chunks>>

Write ==
    /\ pc = "yielded"
    /\ file' = IF written = 0
               THEN to_csv(file, chunks[Len(chunks)].rows, "w", TRUE)
               ELSE to_csv(file, chunks[Len(chunks)].rows, "a", FALSE)
    /\ written' = written + 1
    /\ pc' = "written"
    /\ UNCHANGED <<notOrch, orchVars, n_simulations, chunksize, m_threshold,
                   forecast_n_days, sim_id, simulations, buffered, drawn,
                   chunks>>

(* The drain ends early: simulate_catalog raised inside the generator, or    *)
(* to_csv could not open the file.  Nothing is written by the failing step.  *)
Abort ==
    /\ pc \in {"loop", "yielded"}
    /\ pc' = "aborted"
    /\ UNCHANGED <<notOrch, orchVars, n_simulations, chunksize, m_threshold,
                   forecast_n_days, sim_id, simulations, buffered, drawn,
                   chunks, file, written>>

-----------------------------------------------------------------------------
(* Inputs *)

(* Catalogs simulate_catalog can return to simulate: every event is later    *)
(* than primary_start and not later than simulation_end, its magnitude is    *)
(* at least the mc it was called with, m_ref - delta_m / 2, and it may lie   *)
(* anywhere (the call passes filter_polygon=False).                          *)
ev(t, m, lat, lon) ==
    [time |-> t, magnitude |-> m, latitude |-> lat, longitude |-> lon]

Continuations(dm, s_end) ==
    LET eA == ev(primary_start + 1, m_ref - dm \div 2, 1, 1)
        eB == ev(s_end, m_ref + 44, 2, 1)
        eC == ev(s_end, m_ref + 150, 3, 1)
        eD == ev(primary_start + 1, m_ref + 149, 1, 1)
    IN  { <<>>, <<eA>>, <<eB>>, <<eC>>, <<eD>>, <<eB, eD>> }

Thresholds == {None, Some(m_ref + 100)}

(* Parameter objects: the sources, the real catalog they are merged with     *)
(* and the target events.                                                    *)
src_row(i) == [index |-> i]
cat_row(i, m) == [index |-> i, time |-> 1, magnitude |-> m]
tgt_row(m, lat, lon) == [magnitude |-> m, latitude |-> lat, longitude |-> lon]

Targets(dm) ==
    << tgt_row(m_ref - dm \div 2, 1, 1), tgt_row(m_ref - dm \div 2 - 1, 1, 1),
       tgt_row(m_ref + 500, 3, 3), tgt_row(m_ref, 2, 0) >>

params(dm, src, cat) ==
    [delta_m |-> dm, source_events |-> src, catalog |-> cat,
     target_events |-> Targets(dm)]

GoodParams(dm) ==
    params(dm, <<src_row(1), src_row(2)>>,
               <<cat_row(1, m_ref + 300), cat_row(2, m_ref), cat_row(3, m_ref - 200)>>)

BadParams(dm) ==
    params(dm, <<src_row(1), src_row(2)>>,
               <<cat_row(1, m_ref + 300), cat_row(2, m_ref + 100)>>)

-----------------------------------------------------------------------------
(* The orchestrator after construction, no generator created, and an output  *)
(* file left by an earlier run.                                              *)
InitWith(P) ==
    /\ inversion_params \in P
    /\ catalog = None
    /\ source_events = None
    /\ target_events = None
    /\ simulation_end = None
    /\ prepare_result = "none"
    /\ pc = "idle"
    /\ n_simulations = 0
    /\ chunksize = 1
    /\ m_threshold = None
    /\ forecast_n_days = 0
    /\ sim_id = 0
    /\ simulations = <<>>
    /\ buffered = <<>>
    /\ drawn = <<>>
    /\ chunks = <<>>
    /\ file = <<stale_line>>
    /\ written = 0

(* The parts of the state a specification does not exercise.                 *)
CatIdle ==
    /\ sc_auxiliary = None
    /\ sc_filter_polygon = FALSE
    /\ sc_sim_id = 0
    /\ sc_sources = <<>>
    /\ sc_catalog = <<>>
    /\ sc_generation = 0
    /\ sc_pc = "idle"

SeedIdle ==
    /\ rng = 0
    /\ sd_seed = None
    /\ sd_density = FALSE
    /\ sd_run = 1
    /\ sd_pc = "idle"
    /\ sd_out = << <<>>, <<>> >>

DfIdle ==
    /\ df_args = None
    /\ store = <<>>

GaIdle ==
    /\ ga_sources = <<>>
    /\ ga_auxiliary_end = None
    /\ ga_polygon = None
    /\ ga_candidates = <<>>
    /\ ga_located = <<>>
    /\ ga_rows = <<>>
    /\ ga_returned = <<>>
    /\ ga_pc = "idle"

BgIdle ==
    /\ bg_probs = FALSE
    /\ bg_start = 0
    /\ bg_n_background = 0
    /\ bg_catalog = <<>>
    /\ bg_retried = FALSE
    /\ bg_returned = <<>>
    /\ bg_pc = "idle"

IugIdle ==
    /\ iug_a = 1
    /\ iug_y = <<>>
    /\ iug_result = <<>>
    /\ iug_idx = 0
    /\ iug_origin = <<>>
    /\ iug_pc = "idle"

OrchIdle == InitWith({GoodParams(100)})

Init ==
    /\ InitWith({GoodParams(dm) : dm \in DeltaMs} \cup {BadParams(100)})
    /\ CatIdle
    /\ SeedIdle
    /\ IugIdle
    /\ DfIdle
    /\ GaIdle
    /\ BgIdle

SimulateAny ==
    \E n \in 0..MaxSims, d \in 1..MaxDays, mt \in Thresholds, c \in 1..MaxChunk :
        Simulate(n, d, mt, c)

RealizeAny ==
    /\ pc = "loop"
    /\ \E continuation \in Continuations(inversion_params.delta_m,
                                          Val(simulation_end)) :
            Realize(continuation)

Next ==
    \/ Prepare
    \/ SimulateAny
    \/ RealizeAny
    \/ Write
    \/ Resume
    \/ Abort

Spec == Init /\ [][Next]_vars

(* prepare() alone, over many parameter objects.                            *)
SeqsUpTo(S, n) == UNION {[1..k -> S] : k \in 0..n}

PrepSources ==
    {q \in SeqsUpTo({src_row(1), src_row(2)}, MaxSources) : q # <<>>}
        \cup { << [index |-> 1, xi_plus_1 |-> 3] >> }

PrepCatalogs ==
    SeqsUpTo({cat_row(i, m) : i \in {1, 2}, m \in {m_ref, m_ref + 1, m_ref - 100}},
             MaxCatalogRows)

InitPrep ==
    /\ InitWith({params(dm, src, cat) :
                   dm \in DeltaMs, src \in PrepSources, cat \in PrepCatalogs})
    /\ CatIdle
    /\ SeedIdle
    /\ IugIdle
    /\ DfIdle
    /\ GaIdle
    /\ BgIdle

NextPrep == Prepare

SpecPrep == InitPrep /\ [][NextPrep]_vars

-----------------------------------------------------------------------------
(* simulate_to_csv(fmt='csep').  A row is a function from column names to    *)
(* values.  The drain asks simulate for the info columns G and evt_id and    *)
(* writes the columns it lists under the seven names of its header.          *)
csep_info_cols == <<"G", "evt_id">>

(* cols of simulate (lines 626-629).                                         *)
simulate_cols(info_cols, n) ==
    <<"latitude", "longitude", "magnitude", "time">> \o info_cols
        \o (IF n # 1 THEN <<"catalog_id">> ELSE <<>>)

(* columns and header of the drain (lines 752-762).                          *)
csep_columns(n) ==
    <<"longitude", "latitude", "magnitude", "time", "G">>
        \o <<IF n # 1 THEN "catalog_id" ELSE "G">>
        \o <<"G">>

csep_header ==
    <<"lon", "lat", "m", "time", "depth", "catalog_id", "event_id">>

(* The columns of the buffer.  simulate_catalog creates no column G; the     *)
(* buffer has one only when the auxiliary catalog brings it, which the       *)
(* catalog merged by prepare() is taken to do.                               *)
frame_columns(cat) ==
    {"latitude", "longitude", "magnitude", "time", "evt_id", "catalog_id"}
        \cup (IF cat # None THEN {"G"} ELSE {})

(* Events simulate_catalog returns in this setting: a background event with  *)
(* evt_id set to its label and no G, an aftershock with neither, and an      *)
(* auxiliary event later than primary_start with both.                       *)
csep_event(t, m, g, evt) ==
    [time |-> t, magnitude |-> m, latitude |-> 1, longitude |-> 2,
     G |-> g, evt_id |-> evt]

CsepContinuations ==
    LET bg == csep_event(primary_start + 1, m_ref + 100, NaN, 3)
        as == csep_event(primary_start + 1, m_ref + 200, NaN, NaN)
        aux == csep_event(primary_start + 1, m_ref + 300, 5, 1)
    IN  { <<>>, <<bg>>, <<bg, as>>, <<aux>> }

tag_csep(continuation, id) ==
    [k \in DOMAIN continuation |-> continuation[k] @@ [catalog_id |-> id]]

(* simulations[cols]                                                         *)
select_columns(rows, cols) ==
    [k \in DOMAIN rows |-> [c \in Range(cols) |-> rows[k][c]]]

(* One line of the file: the values of the listed columns, in their order.   *)
(* `row` is a history field, the chunk row the line was written from.        *)
csep_line(row, columns) ==
    [kind |-> "row", values |-> [i \in DOMAIN columns |-> row[columns[i]]],
     row |-> row]

csep_to_csv(old, rows, mode, header, columns) ==
    (IF mode = "w" THEN <<>> ELSE old)
        \o (IF header THEN <<[kind |-> "header", names |-> csep_header]>>
            ELSE <<>>)
        \o [k \in DOMAIN rows |-> csep_line(rows[k], columns)]

SimulateCsep ==
    \E n \in 1..MaxSims, d \in 1..MaxDays, c \in 1..MaxChunk :
        Simulate(n, d, None, c)

(* A pass of the loop of simulate with info_cols = ['G', 'evt_id'].  The     *)
(* selection simulations[cols] raises KeyError when a column is missing.     *)
RealizeCsep ==
    /\ pc = "loop"
    /\ \E continuation \in CsepContinuations :
         LET buf == simulations \o tag_csep(continuation, sim_id)
             out == emit(buf, m_threshold, inversion_params.delta_m,
                         Val(simulation_end))
             cols == simulate_cols(csep_info_cols, n_simulations)
         IN  /\ drawn' = Append(drawn, continuation)
             /\ buffered' = Append(buffered, sim_id)
             /\ IF emits(sim_id, n_simulations, chunksize)
                THEN /\ simulations' = out
                     /\ UNCHANGED sim_id
                     /\ IF Range(cols) \subseteq frame_columns(catalog)
                        THEN /\ chunks' = Append(chunks,
                                    [rows |-> select_columns(out, cols),
                                     sims |-> Append(buffered, sim_id)])
                             /\ pc' = "yielded"
                        ELSE /\ pc' = "KeyError"
                             /\ UNCHANGED chunks
                ELSE /\ simulations' = buf
                     /\ sim_id' = sim_id + 1
                     /\ pc' = IF sim_id + 1 < n_simulations
                              THEN "loop" ELSE "done"
                     /\ UNCHANGED chunks
    /\ UNCHANGED <<notOrch, orchVars, n_simulations, chunksize,
                   m_threshold, forecast_n_days, file, written>>

WriteCsep ==
    /\ pc = "yielded"
    /\ file' = IF written = 0
               THEN csep_to_csv(file, chunks[Len(chunks)].rows, "w", TRUE,
                                csep_columns(n_simulations))
               ELSE csep_to_csv(file, chunks[Len(chunks)].rows, "a", FALSE,
                                csep_columns(n_simulations))
    /\ written' = written + 1
    /\ pc' = "written"
    /\ UNCHANGED <<notOrch, orchVars, n_simulations, chunksize,
                   m_threshold, forecast_n_days, sim_id, simulations, buffered,
                   drawn, chunks>>

InitCsep ==
    /\ OrchIdle
    /\ CatIdle
    /\ SeedIdle
    /\ IugIdle
    /\ DfIdle
    /\ GaIdle
    /\ BgIdle

NextCsep ==
    \/ Prepare
    \/ SimulateCsep
    \/ RealizeCsep
    \/ WriteCsep
    \/ Resume

SpecCsep == InitCsep /\ [][NextCsep]_vars

(* C13: every row written in the csep format carries the event's longitude,  *)
(* latitude, magnitude and time, the id of its realization in the column     *)
(* catalog_id and its event identifier in the column event_id, also when     *)
(* n_simulations = 1.                                                        *)
C13_CsepRowCarriesIds ==
    \A i \in DOMAIN file :
        file[i].kind = "row" =>
            LET v == file[i].values
                r == file[i].row
            IN  /\ v[1] = r["longitude"]
                /\ v[2] = r["latitude"]
                /\ v[3] = r["magnitude"]
                /\ v[4] = r["time"]
                /\ v[6] = (IF n_simulations # 1 THEN r["catalog_id"] ELSE 0)
                /\ v[7] = r["evt_id"]

-----------------------------------------------------------------------------
(* simulate_to_df(forecast_n_days, n_simulations, m_threshold, chunksize,    *)
(* info_cols): it passes its arguments to simulate by position, in its own   *)
(* order, and simulate takes n_simulations first and forecast_n_days second  *)
(* (lines 617 and 790).                                                      *)
SimulateToDf(forecast_days, n_sims, mt, c) ==
    /\ df_args = None
    /\ simulate_call(forecast_days, n_sims, mt, c)
    /\ df_args' = Some([forecast_n_days |-> forecast_days,
                        n_simulations |-> n_sims])
    /\ store' = <<>>
    /\ UNCHANGED notDf

SimulateToDfAny ==
    \E d \in 1..MaxDays, n \in 1..MaxSims, c \in 1..MaxChunk :
        SimulateToDf(d, n, None, c)

(* store = pd.concat([store, chunk]): the body of the for loop.              *)
Concat ==
    /\ pc = "yielded"
    /\ df_args # None
    /\ store' = store \o chunks[Len(chunks)].rows
    /\ pc' = "written"
    /\ UNCHANGED <<df_args, orchVars, n_simulations, chunksize, m_threshold,
                   forecast_n_days, sim_id, simulations, buffered, drawn,
                   chunks, file, written, notDf>>

InitDf ==
    /\ InitWith({GoodParams(dm) : dm \in DeltaMs})
    /\ CatIdle
    /\ SeedIdle
    /\ IugIdle
    /\ DfIdle
    /\ GaIdle
    /\ BgIdle

NextDf ==
    \/ Prepare
    \/ SimulateToDfAny
    \/ RealizeAny
    \/ Concat
    \/ Resume

SpecDf == InitDf /\ [][NextDf]_vars

(* C16: simulate_to_df(forecast_n_days = d, n_simulations = n) draws n       *)
(* realizations over a window of d days and returns the chunks of that run,  *)
(* concatenated.                                                             *)
C16_DfDrawsNOverDDays ==
    (df_args # None /\ pc = "done") =>
        /\ Len(drawn) = Val(df_args).n_simulations
        /\ simulation_end = Some(primary_start + Val(df_args).forecast_n_days)
        /\ store = Flatten([k \in DOMAIN chunks |-> chunks[k].rows])

-----------------------------------------------------------------------------
(* The global random source np.random, followed over two runs of             *)
(* sim_catalog(config, seed) with the same arguments.  Its state is a number *)
(* below RngMod; a draw returns the state and steps it; seed(x) sets the     *)
(* state from x; seed() without argument sets it from the operating          *)
(* system's entropy, which is any state.                                     *)
Entropy == 0..(RngMod - 1)
rng_step(state) == (5 * state + 3) % RngMod
rng_seeded(x) == x % RngMod

(* sim_catalog: "if seed: numpy.random.seed(seed)"; None and 0 are falsy.    *)
SimCatalog ==
    /\ sd_pc = "idle"
    /\ rng' = IF sd_seed # None /\ Val(sd_seed) # 0
              THEN rng_seeded(Val(sd_seed)) ELSE rng
    /\ sd_pc' = "sim"
    /\ UNCHANGED <<sd_seed, sd_density, sd_run, sd_out, notSeed>>

(* simulate: np.random.seed() before the loop.                               *)
EnterSimulate ==
    /\ sd_pc = "sim"
    /\ rng' \in Entropy
    /\ sd_pc' = "loop"
    /\ UNCHANGED <<sd_seed, sd_density, sd_run, sd_out, notSeed>>

(* One realization: generate_background_events draws the background count   *)
(* (np.random.poisson) and then the locations: with a background density by *)
(* simulate_background_location, which calls np.random.seed() first, without *)
(* one by np.random.uniform.  The realization is yielded and written.        *)
SeedRealize ==
    /\ sd_pc = "loop"
    /\ \E reseeded \in Entropy :
         LET n_background == rng
             before == IF sd_density THEN reseeded ELSE rng_step(rng)
             location == before
         IN  /\ sd_out' = [sd_out EXCEPT ![sd_run] =
                             Append(@, <<n_background, location>>)]
             /\ rng' = rng_step(before)
    /\ sd_pc' = "written"
    /\ UNCHANGED <<sd_seed, sd_density, sd_run, notSeed>>

(* The first run has ended; the second starts with the same arguments.       *)
NextRun ==
    /\ sd_pc = "written"
    /\ IF sd_run = 1
       THEN /\ sd_run' = 2
            /\ sd_pc' = "idle"
       ELSE /\ sd_pc' = "finished"
            /\ UNCHANGED sd_run
    /\ UNCHANGED <<rng, sd_seed, sd_density, sd_out, notSeed>>

InitSeed ==
    /\ OrchIdle
    /\ CatIdle
    /\ IugIdle
    /\ DfIdle
    /\ GaIdle
    /\ BgIdle
    /\ rng \in Entropy
    /\ sd_seed \in {None} \cup {Some(x) : x \in 0..MaxSeed}
    /\ sd_density \in BOOLEAN
    /\ sd_run = 1
    /\ sd_pc = "idle"
    /\ sd_out = << <<>>, <<>> >>

NextSeed ==
    \/ SimCatalog
    \/ EnterSimulate
    \/ SeedRealize
    \/ NextRun

SpecSeed == InitSeed /\ [][NextSeed]_vars

(* C5: two runs given the same explicit seed produce the same output.        *)
C5_SameSeedSameOutput ==
    (sd_pc = "finished" /\ sd_seed # None) => sd_out[1] = sd_out[2]

-----------------------------------------------------------------------------
(* inverse_upper_gamma_ext(a, y), the inversion behind the exact time        *)
(* sampler.  A sample y has the true inverse true_inverse(y).  The numerical *)
(* routines are library code: inversefunc resolves an entry or leaves NaN,   *)
(* and scipy's minimize converges or stops without converging, in which case *)
(* res.x[0] is whatever point it stopped at.                                 *)
true_inverse(y) == 10 + y

Shapes == {-1, 0, 1}
Samples == {1, 2}
Unconverged == {1, NaN}

(* nan_idxs (line 68), computed once after the solver: the entries that     *)
(* inversefunc did not resolve.                                              *)
nan_idxs(origin) == SelectSeq([i \in DOMAIN origin |-> i],
                              LAMBDA i : origin[i] # "inversefunc")

(* a > 0: gammainccinv, the closed form (lines 38-39).                       *)
InverseClosedForm ==
    /\ iug_pc = "call"
    /\ iug_a > 0
    /\ iug_result' = [i \in DOMAIN iug_y |-> true_inverse(iug_y[i])]
    /\ iug_origin' = [i \in DOMAIN iug_y |-> "gammainccinv"]
    /\ iug_pc' = "returned"
    /\ UNCHANGED <<iug_a, iug_y, iug_idx, notIug>>

(* a <= 0: inversefunc over the whole batch (line 63), then the test for NaN *)
(* entries (lines 68-69).                                                    *)
InverseSolver ==
    /\ iug_pc = "call"
    /\ iug_a <= 0
    /\ \E resolved \in [DOMAIN iug_y -> BOOLEAN] :
         LET result == [i \in DOMAIN iug_y |->
                           IF resolved[i] THEN true_inverse(iug_y[i]) ELSE NaN]
         IN  /\ iug_result' = result
             /\ iug_origin' = [i \in DOMAIN iug_y |->
                                  IF resolved[i] THEN "inversefunc" ELSE "nan"]
             /\ iug_pc' = IF \E i \in DOMAIN result : result[i] = NaN
                          THEN "num_inv" ELSE "returned"
    /\ iug_idx' = 1
    /\ UNCHANGED <<iug_a, iug_y, notIug>>

(* One pass of the loop of num_inv (lines 55-58) with the assignment of its  *)
(* value to result (line 71): res.x[0] is stored whether or not the          *)
(* minimisation succeeded; res.success is not read.                          *)
FallbackMinimize ==
    /\ iug_pc = "num_inv"
    /\ LET idxs == nan_idxs(iug_origin)
           i == idxs[iug_idx]
       IN  /\ \/ /\ iug_result' = [iug_result EXCEPT ![i] = true_inverse(iug_y[i])]
                 /\ iug_origin' = [iug_origin EXCEPT ![i] = "minimize"]
              \/ \E x \in Unconverged :
                    /\ iug_result' = [iug_result EXCEPT ![i] = x]
                    /\ iug_origin' = [iug_origin EXCEPT ![i] = "unconverged"]
           /\ iug_pc' = IF iug_idx < Len(idxs) THEN "num_inv" ELSE "returned"
    /\ iug_idx' = iug_idx + 1
    /\ UNCHANGED <<iug_a, iug_y, notIug>>

InitIug ==
    /\ OrchIdle
    /\ CatIdle
    /\ SeedIdle
    /\ DfIdle
    /\ GaIdle
    /\ BgIdle
    /\ iug_a \in Shapes
    /\ iug_y \in SeqsUpTo(Samples, MaxBatch) \ {<<>>}
    /\ iug_result = <<>>
    /\ iug_idx = 0
    /\ iug_origin = <<>>
    /\ iug_pc = "call"

NextIug ==
    \/ InverseClosedForm
    \/ InverseSolver
    \/ FallbackMinimize

SpecIug == InitIug /\ [][NextIug]_vars

(* C15: with a non-positive shape parameter, every entry of a returned       *)
(* result is finite and was resolved by the solver or by a fallback          *)
(* minimisation that converged.                                              *)
C15_EverySampleResolved ==
    (iug_pc = "returned" /\ iug_a <= 0) =>
        \A i \in DOMAIN iug_result :
            /\ iug_result[i] # NaN
            /\ iug_origin[i] \in {"inversefunc", "minimize"}

-----------------------------------------------------------------------------
(* simulate_catalog: one realization of the branching process.  An event is  *)
(* a row [index, time, latitude, longitude, generation, parent,              *)
(* gen_0_parent, is_background, n_aftershocks]; index is the row label of    *)
(* the DataFrame, the event's id.                                            *)
(* The random draws (background count and times, offspring counts, the       *)
(* uniform numbers behind the aftershock delays) are the actions' inputs.    *)
sc_forecast_n_days == 2
sc_simulation_end == primary_start + sc_forecast_n_days
timewindow_length == sc_simulation_end - auxiliary_start

sim_start(auxiliary_catalog) ==
    IF auxiliary_catalog # None THEN primary_start ELSE auxiliary_start

(* sort_values(by="time"): rows in ascending time, ties in their old order.  *)
insert_by_time(row, sorted) ==
    LET k == Cardinality({i \in DOMAIN sorted : sorted[i].time <= row.time})
    IN  SubSeq(sorted, 1, k) \o <<row>> \o SubSeq(sorted, k + 1, Len(sorted))

RECURSIVE sort_values(_)
sort_values(rows) ==
    IF rows = <<>> THEN <<>>
    ELSE insert_by_time(rows[Len(rows)],
                        sort_values(SubSeq(rows, 1, Len(rows) - 1)))

(* catalog.index.max() + 1, the offset added to the labels of new rows.      *)
index_offset_without_gap(cat) == MaxOf({cat[i].index : i \in DOMAIN cat})

index_offset(cat) == MaxOf({cat[i].index : i \in DOMAIN cat}) + 1

shift_index(rows, offset) ==
    [i \in DOMAIN rows |-> [rows[i] EXCEPT !.index = @ + offset]]

(* generate_background_events: times[i] is the time of the i-th background   *)
(* event, counts[i] the offspring count drawn for the i-th row after the     *)
(* sort.  Labels are 1..n and gen_0_parent is the label.  The rejection loop *)
(* leaves only points inside the polygon; they are all put at one point.     *)
background_location == <<1, 1>>

(* Lines 242-266: the surviving points get their times, are sorted by time   *)
(* and labelled from 1.                                                      *)
background_events(points, times, counts) ==
    LET sorted == sort_values([i \in DOMAIN times |->
                                  [time |-> times[i],
                                   latitude |-> points[i].latitude,
                                   longitude |-> points[i].longitude]])
    IN  [i \in DOMAIN sorted |->
            [index |-> i, time |-> sorted[i].time,
             latitude |-> sorted[i].latitude,
             longitude |-> sorted[i].longitude, generation |-> 0,
             parent |-> 0, is_background |-> TRUE, gen_0_parent |-> i,
             n_aftershocks |-> counts[i]]]

generate_background_events(times, counts) ==
    background_events([i \in DOMAIN times |->
                          [latitude |-> background_location[1],
                           longitude |-> background_location[2]]],
                      times, counts)

(* A variant of prepare_auxiliary_catalog that marks the rows as background. *)
prepare_auxiliary_catalog_as_background(auxiliary_catalog, counts) ==
    LET sorted == sort_values(auxiliary_catalog)
    IN  [i \in DOMAIN sorted |->
            [index |-> i, time |-> sorted[i].time,
             latitude |-> sorted[i].latitude,
             longitude |-> sorted[i].longitude, generation |-> 0,
             parent |-> 0, is_background |-> TRUE, gen_0_parent |-> i,
             n_aftershocks |-> counts[i]]]

(* prepare_auxiliary_catalog: a copy of the auxiliary rows, sorted by time   *)
(* and relabelled 1..n.                                                      *)
prepare_auxiliary_catalog(auxiliary_catalog, counts) ==
    LET sorted == sort_values(auxiliary_catalog)
    IN  [i \in DOMAIN sorted |->
            [index |-> i, time |-> sorted[i].time,
             latitude |-> sorted[i].latitude,
             longitude |-> sorted[i].longitude, generation |-> 0,
             parent |-> 0, is_background |-> FALSE, gen_0_parent |-> i,
             n_aftershocks |-> counts[i]]]

(* Lines 436-470: generation 0.                                              *)
generation_0(auxiliary_catalog, times, bg_counts, aux_counts) ==
    LET background == generate_background_events(times, bg_counts)
    IN  IF auxiliary_catalog # None
        THEN LET aux == prepare_auxiliary_catalog(Val(auxiliary_catalog),
                                                  aux_counts)
             IN  shift_index(background, index_offset(aux)) \o aux
        ELSE background

(* The delay of an aftershock as a function of the uniform number y drawn    *)
(* from [0, 1), here from the grid Quantiles: the inverse of the time        *)
(* kernel's distribution function is 0 at y = 0, grows with y and exceeds    *)
(* every window as y approaches 1.                                           *)
Quantiles == {0, 1, 2, 3}

simulate_aftershock_time(y) ==
    IF y < 3 THEN y ELSE timewindow_length + 1

(* A variant of repeat_sources with one repetition too many.                 *)
repeat_sources_once_more(sources) ==
    Flatten([i \in DOMAIN sources |->
                [k \in 1..(sources[i].n_aftershocks + 1) |-> sources[i]]])

(* sources.loc[sources.index.repeat(sources.n_aftershocks)]                  *)
repeat_sources(sources) ==
    Flatten([i \in DOMAIN sources |->
                [k \in 1..sources[i].n_aftershocks |-> sources[i]]])

(* Lines 291-307: one candidate per repetition of a source, with its delay   *)
(* and its time; candidate is the label reset_index gives the row (line      *)
(* 300), which it keeps until line 344.                                      *)
aftershock_candidates(sources, ys) ==
    LET repeated == repeat_sources(sources)
    IN  [i \in DOMAIN repeated |->
            [candidate |-> i,
             parent |-> repeated[i].index,
             gen_0_parent |-> repeated[i].gen_0_parent,
             parent_latitude |-> repeated[i].latitude,
             parent_longitude |-> repeated[i].longitude,
             time_delta |-> simulate_aftershock_time(ys[i]),
             time |-> repeated[i].time + simulate_aftershock_time(ys[i])]]

(* A variant of aftershock_times that drops the children at timewindow_end.  *)
aftershock_times_before_end(sources, ys, timewindow_end, auxiliary_end) ==
    SelectSeq(aftershock_candidates(sources, ys),
              LAMBDA a : /\ a.time_delta <= timewindow_length
                         /\ a.time < timewindow_end
                         /\ auxiliary_end # None => a.time > Val(auxiliary_end))

(* Lines 304-310: the three queries; auxiliary_end may be None.              *)
aftershock_times(sources, ys, timewindow_end, auxiliary_end) ==
    SelectSeq(aftershock_candidates(sources, ys),
              LAMBDA a : /\ a.time_delta <= timewindow_length
                         /\ a.time <= timewindow_end
                         /\ auxiliary_end # None => a.time > Val(auxiliary_end))

(* Lines 312-334: the kept candidates get their location, the parent's       *)
(* location displaced by offsets[i].                                         *)
aftershock_locations(kept, offsets) ==
    [i \in DOMAIN kept |->
        [candidate |-> kept[i].candidate,
         parent |-> kept[i].parent,
         gen_0_parent |-> kept[i].gen_0_parent,
         time |-> kept[i].time,
         latitude |-> kept[i].parent_latitude + offsets[i][1],
         longitude |-> kept[i].parent_longitude + offsets[i][2]]]

(* Lines 336-344: the located candidates that pass the polygon test when a   *)
(* polygon is given.                                                         *)
aftershock_rows(kept, offsets, poly) ==
    SelectSeq(aftershock_locations(kept, offsets),
              LAMBDA a : poly # None =>
                             Intersects(a.latitude, a.longitude, Val(poly)))

(* A variant of generate_aftershocks that gives the children the generation  *)
(* of their parents.                                                         *)
generate_aftershocks_in_same_generation(rows, generation, counts) ==
    [i \in DOMAIN rows |->
        [index |-> i - 1, time |-> rows[i].time,
         latitude |-> rows[i].latitude, longitude |-> rows[i].longitude,
         generation |-> generation, parent |-> rows[i].parent,
         is_background |-> FALSE, gen_0_parent |-> rows[i].gen_0_parent,
         n_aftershocks |-> counts[i]]]

(* Lines 344-365: the rows relabelled from 0, with the generation and the    *)
(* offspring counts drawn for them.                                          *)
generate_aftershocks(rows, generation, counts) ==
    [i \in DOMAIN rows |->
        [index |-> i - 1, time |-> rows[i].time,
         latitude |-> rows[i].latitude, longitude |-> rows[i].longitude,
         generation |-> generation + 1, parent |-> rows[i].parent,
         is_background |-> FALSE, gen_0_parent |-> rows[i].gen_0_parent,
         n_aftershocks |-> counts[i]]]

query_sources_of_any_count(cat, generation) ==
    SelectSeq(cat, LAMBDA e : e.generation = generation)

query_sources(cat, generation) ==
    SelectSeq(cat, LAMBDA e : e.generation = generation /\ e.n_aftershocks > 0)

(* A variant of next_generation that stays in the generation.                *)
same_generation(generation) == generation

(* generation = generation + 1 (line 502)                                    *)
next_generation(generation) == generation + 1

BackgroundTimes(auxiliary_catalog) ==
    sim_start(auxiliary_catalog)..(sc_simulation_end - 1)

Counts(n) == [1..n -> 0..MaxOffspring]

(* Displacements of an aftershock from its parent, in degrees.               *)
Offsets == { <<0, 0>>, <<2, 0>> }

(* A variant of pd_concat with ignore_index=True: the rows are relabelled    *)
(* from 0.                                                                   *)
pd_concat_ignoring_index(cat, rows) ==
    [i \in 1..(Len(cat) + Len(rows)) |->
        [(cat \o rows)[i] EXCEPT !.index = i - 1]]

(* pd.concat([catalog, aftershocks], ignore_index=False, sort=True), lines   *)
(* 498-499: the rows of both frames with their labels; sort=True orders the  *)
(* columns.                                                                  *)
pd_concat(cat, rows) == cat \o rows

(* A variant of caller_frame for a prepare_auxiliary_catalog that sets its   *)
(* columns on the frame it is given.                                         *)
caller_frame_without_copy(auxiliary_catalog) ==
    IF auxiliary_catalog = None THEN None
    ELSE Some([i \in DOMAIN Val(auxiliary_catalog) |->
                  [time |-> Val(auxiliary_catalog)[i].time,
                   latitude |-> Val(auxiliary_catalog)[i].latitude,
                   longitude |-> Val(auxiliary_catalog)[i].longitude,
                   generation |-> 0, parent |-> 0, is_background |-> FALSE]])

(* The frame of the caller after prepare_auxiliary_catalog: the function     *)
(* works on auxiliary_catalog.copy() (line 372) and simulate_catalog rebinds *)
(* its own name only (line 458), so the caller's frame is as it was.         *)
caller_frame(auxiliary_catalog) == auxiliary_catalog

(* simulate_catalog up to the loop.                                          *)
Generation0 ==
    /\ sc_pc = "idle"
    /\ \E n_background \in 0..MaxBackground :
         \E times \in [1..n_background -> BackgroundTimes(sc_auxiliary)] :
           \E bg_counts \in Counts(n_background) :
             \E aux_counts \in Counts(IF sc_auxiliary = None THEN 0
                                      ELSE Len(Val(sc_auxiliary))) :
               LET cat == generation_0(sc_auxiliary, times,
                                       bg_counts, aux_counts)
               IN  /\ Len(cat) + SumSeq(bg_counts) + SumSeq(aux_counts)
                        <= MaxEvents
                   /\ sc_catalog' = cat
    /\ sc_auxiliary' = caller_frame(sc_auxiliary)
    /\ sc_generation' = 0
    /\ sc_pc' = "ACCUMULATING"
    /\ UNCHANGED <<sc_filter_polygon, sc_sim_id, sc_sources, notCat>>

(* One pass of the loop that finds sources (lines 472-502).                  *)
Expand ==
    /\ sc_pc = "ACCUMULATING"
    /\ LET sources == query_sources(sc_catalog, sc_generation)
       IN  /\ sources # <<>>
           /\ sc_sources' = Append(sc_sources,
                                   [i \in DOMAIN sources |-> sources[i].index])
           /\ \E ys \in [1..Len(repeat_sources(sources)) -> Quantiles] :
                LET kept == aftershock_times(sources, ys, sc_simulation_end,
                                             Some(primary_start))
                IN  \E offsets \in [1..Len(kept) -> Offsets] :
                      \E counts \in Counts(Len(kept)) :
                        LET aftershocks ==
                                SelectSeq(
                                    shift_index(
                                        generate_aftershocks(
                                            aftershock_rows(kept, offsets, None),
                                            sc_generation, counts),
                                        index_offset(sc_catalog)),
                                    LAMBDA a : a.time > sim_start(sc_auxiliary))
                        IN  /\ Len(sc_catalog) + Len(aftershocks)
                                 + SumSeq(counts) <= MaxEvents
                            /\ sc_catalog' = pd_concat(sc_catalog, aftershocks)
    /\ sc_generation' = next_generation(sc_generation)
    /\ UNCHANGED <<catArgs, sc_pc, notCat>>

(* The pass that finds no source leaves the loop (lines 480-481).            *)
Break ==
    /\ sc_pc = "ACCUMULATING"
    /\ query_sources(sc_catalog, sc_generation) = <<>>
    /\ sc_pc' = "DONE"
    /\ UNCHANGED <<catArgs, sc_catalog, sc_generation, sc_sources,
                   notCat>>

(* Lines 504-512: the final time query and, on request, the polygon test.    *)
final_query_from_primary_start(cat, with_polygon) ==
    SelectSeq(cat, LAMBDA e : /\ e.time >= primary_start
                              /\ with_polygon =>
                                     Intersects(e.latitude, e.longitude,
                                                polygon))

final_query(cat, with_polygon) ==
    SelectSeq(cat, LAMBDA e : /\ e.time > primary_start
                              /\ with_polygon =>
                                     Intersects(e.latitude, e.longitude,
                                                polygon))

Return ==
    /\ sc_pc = "DONE"
    /\ sc_catalog' = final_query(sc_catalog, sc_filter_polygon)
    /\ sc_pc' = "returned"
    /\ UNCHANGED <<catArgs, sc_generation, sc_sources,
                   notCat>>

(* Rows an auxiliary catalog is made of: at auxiliary_start outside the      *)
(* polygon, at primary_start and after primary_start inside it.              *)
AuxRows ==
    { [time |-> auxiliary_start, latitude |-> 3, longitude |-> 1],
      [time |-> primary_start, latitude |-> 1, longitude |-> 1],
      [time |-> primary_start + 1, latitude |-> 1, longitude |-> 1] }

(* An auxiliary catalog is None or a non-empty sequence of distinct rows, in *)
(* any order.                                                                *)
AuxCatalogs ==
    {None} \cup {Some(q) : q \in {r \in SeqsUpTo(AuxRows, MaxAux) :
                                      /\ r # <<>>
                                      /\ Cardinality(Range(r)) = Len(r)}}

InitCat ==
    /\ OrchIdle
    /\ SeedIdle
    /\ IugIdle
    /\ DfIdle
    /\ GaIdle
    /\ BgIdle
    /\ sc_auxiliary \in AuxCatalogs
    /\ sc_filter_polygon \in BOOLEAN
    /\ sc_sim_id = 0
    /\ sc_sources = <<>>
    /\ sc_catalog = <<>>
    /\ sc_generation = 0
    /\ sc_pc = "idle"

NextCat ==
    \/ Generation0
    \/ Expand
    \/ Break
    \/ Return

SpecCat == InitCat /\ [][NextCat]_vars

(* The catalog event with the given id.                                      *)
event_with_id(id) ==
    CHOOSE e \in Range(sc_catalog) : e.index = id

Building == sc_pc \in {"ACCUMULATING", "DONE"}

(* C9: while the catalog of a realization is built, every event that has a   *)
(* parent id finds its parent in the catalog, is one generation below it and *)
(* is strictly later than it.                                                *)
C9_ChildAfterParent ==
    Building =>
        \A e \in Range(sc_catalog) :
            e.parent # 0 =>
                /\ \E p \in Range(sc_catalog) : p.index = e.parent
                /\ e.generation = event_with_id(e.parent).generation + 1
                /\ e.time > event_with_id(e.parent).time

(* C10: once generation 0 is built, and after every generation appended, no  *)
(* two events of the catalog have the same id and none has id 0.             *)
C10_IdsUnique ==
    sc_pc # "idle" =>
        /\ \A i, j \in DOMAIN sc_catalog :
               i # j => sc_catalog[i].index # sc_catalog[j].index
        /\ \A i \in DOMAIN sc_catalog : sc_catalog[i].index # 0

C10_Witness ==
    /\ sc_pc = "DONE"
    /\ sc_auxiliary # None
    /\ \E a, b, c, d \in Range(sc_catalog) :
         /\ a.generation = 0 /\ ~a.is_background
         /\ b.generation = 0 /\ b.is_background
         /\ c.generation = 1
         /\ d.generation = 2

(* Generation 0 is in the catalog and none of its events has offspring.      *)
NoOffspringInGeneration0 ==
    /\ Building
    /\ \A e \in Range(sc_catalog) : e.generation = 0 => e.n_aftershocks = 0

(* C11: when no generation-0 event has offspring (also when there is no      *)
(* generation-0 event at all), the only steps simulate_catalog takes are the *)
(* exit from the loop at generation 0 and the return, and the catalog never  *)
(* holds an event of generation 1 or more.                                   *)
C11_NoOffspringEndsAfterGeneration0 ==
    [][NoOffspringInGeneration0 =>
          /\ sc_generation = 0
          /\ sc_generation' = 0
          /\ \A e \in Range(sc_catalog') : e.generation = 0
          /\ sc_pc = "ACCUMULATING" => sc_pc' = "DONE" /\ sc_catalog' = sc_catalog
          /\ sc_pc = "DONE" => sc_pc' = "returned"]_vars

C11_Witness ==
    /\ sc_pc = "returned"
    /\ sc_generation = 0
    /\ sc_auxiliary # None
    /\ sc_catalog # <<>>

(* C12: every event of the returned catalog is strictly later than           *)
(* primary_start, and lies inside the polygon when filter_polygon is set.    *)
C12_ReturnedAfterPrimaryStart ==
    sc_pc = "returned" =>
        \A e \in Range(sc_catalog) :
            /\ e.time > primary_start
            /\ sc_filter_polygon =>
                   Intersects(e.latitude, e.longitude, polygon)

(* A filtered return that dropped the parent of an event it kept.            *)
C12_Witness ==
    /\ sc_pc = "returned"
    /\ sc_filter_polygon
    /\ \E e \in Range(sc_catalog) :
         /\ e.parent # 0
         /\ \A p \in Range(sc_catalog) : p.index # e.parent

(* Some event of the generation being processed has offspring.               *)
HasSources ==
    \E e \in Range(sc_catalog) :
        e.generation = sc_generation /\ e.n_aftershocks > 0

(* C17: at generation g the loop ends exactly when no event of generation g  *)
(* has offspring; otherwise it goes on, appends events of generation g + 1   *)
(* only and raises g by one; once it has ended nothing is appended.          *)
C17_LoopEndsExactlyWithoutSources ==
    [][/\ (sc_pc = "ACCUMULATING" /\ ~HasSources) =>
              /\ sc_pc' = "DONE"
              /\ sc_catalog' = sc_catalog
              /\ sc_generation' = sc_generation
       /\ (sc_pc = "ACCUMULATING" /\ HasSources) =>
              /\ sc_pc' = "ACCUMULATING"
              /\ sc_generation' = sc_generation + 1
              /\ Len(sc_catalog') >= Len(sc_catalog)
              /\ SubSeq(sc_catalog', 1, Len(sc_catalog)) = sc_catalog
              /\ \A k \in (Len(sc_catalog) + 1)..Len(sc_catalog') :
                     /\ sc_catalog'[k].generation = sc_generation + 1
                     /\ \E p \in Range(sc_catalog) :
                            /\ p.index = sc_catalog'[k].parent
                            /\ p.generation = sc_generation
       /\ sc_pc \in {"DONE", "returned"} =>
              /\ sc_pc' = "returned"
              /\ sc_generation' = sc_generation
              /\ Range(sc_catalog') \subseteq Range(sc_catalog)]_vars

C17_Witness ==
    /\ sc_pc = "DONE"
    /\ sc_generation = 2
    /\ Len(sc_sources) = 2
    /\ \E e \in Range(sc_catalog) : e.generation = 2 /\ e.n_aftershocks = 0
    /\ \E e \in Range(sc_catalog) : e.generation = 0 /\ e.n_aftershocks = 0

(* Number of times the id occurs among the sources of all calls so far.      *)
times_passed(id) ==
    Cardinality({<<g, i>> \in (DOMAIN sc_sources) \X (1..MaxEvents) :
                    i \in DOMAIN sc_sources[g] /\ sc_sources[g][i] = id})

(* C18: while the catalog is built, an event with offspring whose generation *)
(* has been processed was passed to generate_aftershocks exactly once, in    *)
(* the pass of its generation; no other event was passed; and when the loop  *)
(* has ended every event with offspring has been passed.                     *)
C18_EachSourcePassedOnce ==
    Building =>
        /\ Len(sc_sources) = sc_generation
        /\ \A e \in Range(sc_catalog) :
               IF e.n_aftershocks > 0 /\ e.generation < sc_generation
               THEN /\ times_passed(e.index) = 1
                    /\ e.index \in Range(sc_sources[e.generation + 1])
               ELSE times_passed(e.index) = 0
        /\ \A g \in DOMAIN sc_sources : \A id \in Range(sc_sources[g]) :
               \E e \in Range(sc_catalog) : e.index = id
        /\ sc_pc = "DONE" =>
               \A e \in Range(sc_catalog) :
                   e.n_aftershocks > 0 => times_passed(e.index) = 1

C18_Witness ==
    /\ sc_pc = "DONE"
    /\ Len(sc_sources) = 2
    /\ \E e \in Range(sc_catalog) :
         e.generation = 1 /\ e.n_aftershocks = 0 /\ times_passed(e.index) = 0
    /\ \E e \in Range(sc_catalog) :
         e.generation = 1 /\ e.n_aftershocks > 0 /\ times_passed(e.index) = 1

(* Number of catalog events whose parent is the event with the given id.     *)
children_of(id) ==
    Cardinality({k \in DOMAIN sc_catalog : sc_catalog[k].parent = id})

(* C19: no event has more children in the catalog than its offspring count   *)
(* (none when the count is 0), and the candidates made for the sources of a  *)
(* pass are as many as the sum of their offspring counts, n_aftershocks of   *)
(* them for each source.                                                     *)
C19_ChildrenWithinOffspringCount ==
    Building =>
        /\ \A e \in Range(sc_catalog) : children_of(e.index) <= e.n_aftershocks
        /\ LET sources == query_sources(sc_catalog, sc_generation)
               repeated == repeat_sources(sources)
           IN  /\ Len(repeated) =
                      SumSeq([i \in DOMAIN sources |-> sources[i].n_aftershocks])
               /\ \A i \in DOMAIN sources :
                      Cardinality({k \in DOMAIN repeated :
                                      repeated[k].index = sources[i].index})
                          = sources[i].n_aftershocks

C19_Witness ==
    /\ sc_pc = "DONE"
    /\ \E e \in Range(sc_catalog) :
         e.n_aftershocks = 2 /\ children_of(e.index) = 1
    /\ \E e \in Range(sc_catalog) :
         e.n_aftershocks = 1 /\ children_of(e.index) = 1

(* The auxiliary rows as simulate_catalog received them.                     *)
auxiliary_rows == IF sc_auxiliary = None THEN <<>> ELSE Val(sc_auxiliary)

(* C23: in the catalog of a realization every event of generation 0 has      *)
(* parent 0; those that are not background are the auxiliary rows, one event *)
(* for each; an event is background only in generation 0 and never at an     *)
(* auxiliary label; and an event of a later generation has a parent that is  *)
(* not 0.                                                                    *)
C23_Generation0IsBackgroundAndAuxiliary ==
    Building =>
        LET gen0 == SelectSeq(sc_catalog, LAMBDA e : e.generation = 0)
            aux == SelectSeq(gen0, LAMBDA e : ~e.is_background)
        IN  /\ \A e \in Range(gen0) : e.parent = 0
            /\ Len(aux) = Len(auxiliary_rows)
            /\ {[time |-> e.time, latitude |-> e.latitude,
                 longitude |-> e.longitude] : e \in Range(aux)}
                   = Range(auxiliary_rows)
            /\ \A e \in Range(aux) : e.index \in 1..Len(auxiliary_rows)
            /\ \A e \in Range(sc_catalog) :
                   /\ e.is_background =>
                          /\ e.generation = 0
                          /\ e.index \notin 1..Len(auxiliary_rows)
                          /\ e.time >= sim_start(sc_auxiliary)
                   /\ e.generation >= 1 =>
                          /\ ~e.is_background
                          /\ e.parent # 0
                          /\ \E q \in Range(sc_catalog) : q.index = e.parent

C23_Witness ==
    /\ sc_pc = "DONE"
    /\ Len(auxiliary_rows) = 1
    /\ \E e \in Range(sc_catalog) : e.is_background
    /\ \E e \in Range(sc_catalog) :
         e.generation = 1 /\ event_with_id(e.parent).is_background
    /\ \E e \in Range(sc_catalog) :
         e.generation = 1 /\ ~event_with_id(e.parent).is_background

(* The generation-0 event reached from the event with the given id by        *)
(* following parent.                                                         *)
RECURSIVE gen_0_ancestor(_)
gen_0_ancestor(id) ==
    LET e == event_with_id(id)
    IN  IF e.generation = 0 THEN id ELSE gen_0_ancestor(e.parent)

(* C24: gen_0_parent of every event is the id of the generation-0 event its  *)
(* parent links lead to, its own id for an event of generation 0.            *)
C24_Gen0ParentIsTheAncestor ==
    Building =>
        \A e \in Range(sc_catalog) : e.gen_0_parent = gen_0_ancestor(e.index)

(* C25: a step of the loop leaves every event of the catalog as it is, id    *)
(* and position included, and the events it adds are of the generation after *)
(* the one being processed and carry new ids.                                *)
C25_CatalogIsAppendOnly ==
    [][sc_pc = "ACCUMULATING" =>
           /\ Len(sc_catalog') >= Len(sc_catalog)
           /\ \A k \in DOMAIN sc_catalog : sc_catalog'[k] = sc_catalog[k]
           /\ \A k \in (Len(sc_catalog) + 1)..Len(sc_catalog') :
                  /\ sc_catalog'[k].generation = sc_generation + 1
                  /\ \A j \in DOMAIN sc_catalog :
                         sc_catalog[j].index # sc_catalog'[k].index]_vars

C25_Witness ==
    /\ sc_pc = "ACCUMULATING"
    /\ sc_generation = 2
    /\ Len(sc_catalog) = 4
    /\ \E e \in Range(sc_catalog) : e.generation = 2
    /\ \E e \in Range(sc_catalog) : e.generation = 0 /\ ~e.is_background

----------------------------------------------------------------------------
(* generate_aftershocks as a function of its arguments                       *)
(* (src/etas/simulation.py, lines 270-365): SpecAft draws the sources, the   *)
(* cutoff auxiliary_end and the polygon, and applies the function once.      *)

(* Source events: their time, location and offspring count. The first is so  *)
(* early that a delay longer than timewindow_length still ends in the        *)
(* window.                                                                   *)
SourceRows ==
    { [time |-> auxiliary_start - 2, latitude |-> 1, longitude |-> 1,
       n_aftershocks |-> 1],
      [time |-> primary_start, latitude |-> 1, longitude |-> 1,
       n_aftershocks |-> 2],
      [time |-> primary_start + 1, latitude |-> 1, longitude |-> 1,
       n_aftershocks |-> 1] }

(* The frame `sources`: distinct events of generation 0, labelled from 1.    *)
source_frame(q) ==
    [i \in DOMAIN q |->
        [index |-> i, time |-> q[i].time,
         latitude |-> q[i].latitude, longitude |-> q[i].longitude,
         generation |-> 0, parent |-> 0, is_background |-> FALSE,
         gen_0_parent |-> i, n_aftershocks |-> q[i].n_aftershocks]]

SourceFrames ==
    {source_frame(q) : q \in {r \in SeqsUpTo(SourceRows, MaxSources) :
                                  /\ r # <<>>
                                  /\ Cardinality(Range(r)) = Len(r)}}

(* Offspring counts of the children: the same count for every child.         *)
UniformCounts(n) == {[i \in 1..n |-> c] : c \in 0..MaxOffspring}

(* One call generate_aftershocks(sources, 0, ..., timewindow_end,            *)
(* timewindow_length, auxiliary_end, polygon) (lines 270-365).               *)
GenerateAftershocks ==
    /\ ga_pc = "call"
    /\ \E ys \in [1..Len(repeat_sources(ga_sources)) -> Quantiles] :
         LET kept == aftershock_times(ga_sources, ys, sc_simulation_end,
                                      ga_auxiliary_end)
         IN  \E offsets \in [1..Len(kept) -> Offsets] :
               LET rows == aftershock_rows(kept, offsets, ga_polygon)
               IN  \E counts \in UniformCounts(Len(rows)) :
                     /\ ga_candidates' = aftershock_candidates(ga_sources, ys)
                     /\ ga_located' = aftershock_locations(kept, offsets)
                     /\ ga_rows' = rows
                     /\ ga_returned' = generate_aftershocks(rows, 0, counts)
    /\ ga_pc' = "returned"
    /\ UNCHANGED <<ga_sources, ga_auxiliary_end, ga_polygon, notGa>>

InitAft ==
    /\ OrchIdle
    /\ CatIdle
    /\ SeedIdle
    /\ IugIdle
    /\ DfIdle
    /\ BgIdle
    /\ ga_sources \in SourceFrames
    /\ ga_auxiliary_end \in {None, Some(primary_start)}
    /\ ga_polygon \in {None, Some(polygon)}
    /\ ga_candidates = <<>>
    /\ ga_located = <<>>
    /\ ga_rows = <<>>
    /\ ga_returned = <<>>
    /\ ga_pc = "call"

NextAft == GenerateAftershocks

SpecAft == InitAft /\ [][NextAft]_vars

(* The source a candidate was repeated from.                                 *)
source_of(c) == CHOOSE e \in Range(ga_sources) : e.index = c.parent

(* What the claim asks of a candidate's times.                               *)
within_window(c) ==
    LET time == source_of(c).time + c.time_delta
    IN  /\ c.time_delta <= timewindow_length
        /\ time <= sc_simulation_end
        /\ ga_auxiliary_end # None => time > Val(ga_auxiliary_end)

(* The candidate passes the polygon test, when a polygon is given.           *)
within_polygon(c) ==
    ga_polygon # None =>
        \E l \in Range(ga_located) :
            /\ l.candidate = c.candidate
            /\ Intersects(l.latitude, l.longitude, Val(ga_polygon))

(* C20: every child generate_aftershocks returns comes from one candidate,   *)
(* whose delay is at most timewindow_length, has the time of its parent plus *)
(* the delay, at most timewindow_end and, with a cutoff, after the cutoff;   *)
(* and a candidate is returned exactly when it satisfies these and the       *)
(* polygon test, if any.                                                     *)
C20_ReturnedExactlyTheCandidatesInWindow ==
    ga_pc = "returned" =>
        /\ Len(ga_returned) = Len(ga_rows)
        /\ \A k \in DOMAIN ga_returned :
               LET c == ga_candidates[ga_rows[k].candidate]
               IN  /\ ga_returned[k].parent = c.parent
                   /\ c.time_delta <= timewindow_length
                   /\ ga_returned[k].time = source_of(c).time + c.time_delta
                   /\ ga_returned[k].time <= sc_simulation_end
                   /\ ga_auxiliary_end # None =>
                          ga_returned[k].time > Val(ga_auxiliary_end)
        /\ \A j, k \in DOMAIN ga_rows :
               ga_rows[j].candidate = ga_rows[k].candidate => j = k
        /\ \A i \in DOMAIN ga_candidates :
               (\E k \in DOMAIN ga_rows : ga_rows[k].candidate = i)
                   <=> (within_window(ga_candidates[i])
                            /\ within_polygon(ga_candidates[i]))

C20_Witness ==
    /\ ga_pc = "returned"
    /\ ga_auxiliary_end # None
    /\ ga_polygon # None
    /\ Len(ga_candidates) = 3
    /\ Len(ga_located) = 2
    /\ Len(ga_returned) = 1
    /\ ga_returned[1].time = sc_simulation_end
    /\ \E c \in Range(ga_candidates) :
         /\ c.time_delta > timewindow_length
         /\ source_of(c).time + c.time_delta <= sc_simulation_end
         /\ source_of(c).time + c.time_delta > Val(ga_auxiliary_end)

(* C27: the catalog simulate_catalog returns holds generated events only,    *)
(* background events and aftershocks, and none of the auxiliary events,      *)
(* wherever these lie in time.                                               *)
C27_NoAuxiliaryEventReturned ==
    sc_pc = "returned" =>
        \A e \in Range(sc_catalog) : e.is_background \/ e.generation >= 1

-----------------------------------------------------------------------------
(* The realizations of one simulate run: the loop of simulate (lines         *)
(* 641-664) calls simulate_catalog(self.catalog, ..., filter_polygon=False)  *)
(* once per sim_id; sc_auxiliary is the orchestrator's merged catalog.       *)

(* Realization ids of the run.                                               *)
RunIds == {0, 1}

(* The next pass of the loop: a new call with the same arguments.            *)
NextRealization ==
    /\ sc_pc = "returned"
    /\ sc_sim_id + 1 \in RunIds
    /\ sc_sim_id' = sc_sim_id + 1
    /\ sc_catalog' = <<>>
    /\ sc_generation' = 0
    /\ sc_sources' = <<>>
    /\ sc_pc' = "idle"
    /\ UNCHANGED <<sc_auxiliary, sc_filter_polygon, notCat>>

InitRuns ==
    /\ OrchIdle
    /\ SeedIdle
    /\ IugIdle
    /\ DfIdle
    /\ GaIdle
    /\ BgIdle
    /\ sc_auxiliary \in AuxCatalogs
    /\ sc_filter_polygon = FALSE
    /\ sc_sim_id = 0
    /\ sc_sources = <<>>
    /\ sc_catalog = <<>>
    /\ sc_generation = 0
    /\ sc_pc = "idle"

NextRuns ==
    \/ Generation0
    \/ Expand
    \/ Break
    \/ Return
    \/ NextRealization

SpecRuns == InitRuns /\ [][NextRuns]_vars

(* C26: no step of a run changes the orchestrator's merged catalog or its    *)
(* parameters, and every realization begins with generation 0 alone, its     *)
(* auxiliary events being the rows of the merged catalog, one event each,    *)
(* labelled 1..na.                                                           *)
C26_RunLeavesOrchestratorUnchanged ==
    [][/\ sc_auxiliary' = sc_auxiliary
       /\ inversion_params' = inversion_params
       /\ sc_pc' = "idle" => sc_catalog' = <<>> /\ sc_sources' = <<>>
       /\ (sc_pc = "idle" /\ sc_pc' = "ACCUMULATING") =>
              LET aux == SelectSeq(sc_catalog', LAMBDA e : ~e.is_background)
              IN  /\ \A e \in Range(sc_catalog') : e.generation = 0
                  /\ Len(aux) = Len(auxiliary_rows)
                  /\ {[time |-> e.time, latitude |-> e.latitude,
                       longitude |-> e.longitude] : e \in Range(aux)}
                         = Range(auxiliary_rows)
                  /\ {e.index : e \in Range(aux)} = 1..Len(auxiliary_rows)]_vars

C26_Witness ==
    /\ sc_sim_id = 1
    /\ sc_pc = "returned"
    /\ Len(auxiliary_rows) = 2
    /\ \E e \in Range(sc_catalog) : e.generation = 1
    /\ \E e \in Range(sc_catalog) : e.is_background

-----------------------------------------------------------------------------
(* Several simulate(...) calls on one orchestrator, each drained by          *)
(* simulate_to_csv before the next is made.                                  *)

(* Arguments of the calls.                                                   *)
CallSims == {1, 2}
CallDays == {1, 2}
CallChunks == {1, 2}

(* A first call, on the orchestrator as constructed or prepared.             *)
SimulateFirst ==
    \E n \in CallSims, d \in CallDays, c \in CallChunks :
        Simulate(n, d, None, c)

(* A later call: a new generator on the same object (lines 617-641).  drawn, *)
(* chunks and written are the history of the call being drained.             *)
SimulateAgain ==
    /\ pc = "done"
    /\ \E n \in CallSims, d \in CallDays, c \in CallChunks :
         /\ n_simulations' = n
         /\ forecast_n_days' = d
         /\ chunksize' = c
    /\ m_threshold' = None
    /\ simulation_end' = IF simulation_end = None
                         THEN Some(primary_start + forecast_n_days')
                         ELSE simulation_end
    /\ simulations' = <<>>
    /\ buffered' = <<>>
    /\ sim_id' = 0
    /\ drawn' = <<>>
    /\ chunks' = <<>>
    /\ written' = 0
    /\ pc' = "loop"
    /\ UNCHANGED <<inversion_params, catalog, source_events, target_events,
                   prepare_result, file, notOrch>>

InitCalls ==
    /\ OrchIdle
    /\ CatIdle
    /\ SeedIdle
    /\ IugIdle
    /\ DfIdle
    /\ GaIdle
    /\ BgIdle

NextCalls ==
    \/ Prepare
    \/ SimulateFirst
    \/ RealizeAny
    \/ Write
    \/ Resume
    \/ SimulateAgain

SpecCalls == InitCalls /\ [][NextCalls]_vars

(* C28: a call of simulate, the first or a later one, starts at realization  *)
(* 0 with an empty buffer, and its window ends forecast_n_days after         *)
(* primary_start.                                                            *)
C28_EveryCallIsFresh ==
    [][(pc \in {"idle", "done"} /\ pc' = "loop") =>
           /\ sim_id' = 0
           /\ simulations' = <<>>
           /\ buffered' = <<>>
           /\ simulation_end' = Some(primary_start + forecast_n_days')]_vars

-----------------------------------------------------------------------------
(* generate_background_events (src/etas/simulation.py, lines 162-267) with   *)
(* its rejection loop.  The polygon is L-shaped, the square [0, 2] x [0, 2]  *)
(* without its corner (1, 2] x (1, 2], so that a point of the surrounding    *)
(* rectangle can miss it.                                                    *)
ell_coords ==
    << <<0, 0>>, <<2, 0>>, <<2, 1>>, <<1, 1>>, <<1, 2>>, <<0, 2>> >>

intersects_ell(lat, lon) ==
    /\ Intersects(lat, lon, ell_coords)
    /\ ~(lat > 1 /\ lon > 1)

(* polygon_surface of the polygon and of its surrounding rectangle, in       *)
(* squares of one degree.                                                    *)
area == 3
rectangle_area == 4

(* int(np.round(num / den)): to the nearest integer, halves to the even one. *)
np_round(num, den) ==
    LET q == num \div den
        r == num % den
    IN  IF 2 * r < den THEN q
        ELSE IF 2 * r > den THEN q + 1
        ELSE IF q % 2 = 0 THEN q ELSE q + 1

(* n_generate = int(np.round(n_background * rectangle_area / area * 1.2))    *)
n_generate(n_background) ==
    np_round(n_background * rectangle_area * 12, area * 10)

(* Points np.random.uniform can draw in the surrounding rectangle: one in    *)
(* the polygon, one in the missing corner.  origin records which sampler     *)
(* drew the point.                                                           *)
UniformPoints ==
    { [latitude |-> 1, longitude |-> 1, origin |-> "uniform"],
      [latitude |-> 2, longitude |-> 2, origin |-> "uniform"] }

(* Points simulate_background_location can return: a point of the field      *)
(* that survived the thinning, moved by the jitter, inside the polygon or    *)
(* carried out of it.                                                        *)
FieldPoints ==
    { [latitude |-> 0, longitude |-> 0, origin |-> "field"],
      [latitude |-> 2, longitude |-> 3, origin |-> "field"] }

(* A variant of batch_in_polygon without the polygon test.                   *)
batch_unfiltered(batch, n_background) ==
    SubSeq(batch, 1, MinOf({n_background, Len(batch)}))

(* catalog[catalog.intersects(polygon)].head(n_background)                   *)
batch_in_polygon(batch, n_background) ==
    LET inside == SelectSeq(batch, LAMBDA q :
                                intersects_ell(q.latitude, q.longitude))
    IN  SubSeq(inside, 1, MinOf({n_background, Len(inside)}))

(* Lines 182-218: the Poisson draw and the first batch, from the field when  *)
(* background_probs is given, else uniform in the rectangle.                 *)
FirstBatch ==
    /\ bg_pc = "call"
    /\ \E n \in 0..MaxBackground :
         /\ bg_n_background' = n
         /\ \E batch \in [1..n_generate(n) ->
                            IF bg_probs THEN FieldPoints ELSE UniformPoints] :
              bg_catalog' = batch_in_polygon(batch, n)
    /\ bg_pc' = "while"
    /\ UNCHANGED <<bg_probs, bg_start, bg_retried, bg_returned, notBg>>

(* Lines 221-239: one pass of the while loop, a new batch.                   *)
RetryBatch ==
    /\ bg_pc = "while"
    /\ Len(bg_catalog) # bg_n_background
    /\ \E batch \in [1..n_generate(bg_n_background) -> UniformPoints] :
         bg_catalog' = batch_in_polygon(batch, bg_n_background)
    /\ bg_retried' = TRUE
    /\ UNCHANGED <<bg_probs, bg_start, bg_n_background, bg_returned, bg_pc,
                   notBg>>

(* Lines 221 and 242-267: the loop ends, times and offspring counts are      *)
(* drawn and the frame is returned.                                          *)
FinishBackground ==
    /\ bg_pc = "while"
    /\ Len(bg_catalog) = bg_n_background
    /\ \E times \in [1..bg_n_background ->
                        bg_start..(sc_simulation_end - 1)] :
         \E counts \in Counts(bg_n_background) :
           bg_returned' = background_events(bg_catalog, times, counts)
    /\ bg_pc' = "returned"
    /\ UNCHANGED <<bg_probs, bg_start, bg_n_background, bg_catalog,
                   bg_retried, notBg>>

InitBg ==
    /\ OrchIdle
    /\ CatIdle
    /\ SeedIdle
    /\ IugIdle
    /\ DfIdle
    /\ GaIdle
    /\ bg_probs \in BOOLEAN
    /\ bg_start \in {auxiliary_start, primary_start}
    /\ bg_n_background = 0
    /\ bg_catalog = <<>>
    /\ bg_retried = FALSE
    /\ bg_returned = <<>>
    /\ bg_pc = "call"

NextBg ==
    \/ FirstBatch
    \/ RetryBatch
    \/ FinishBackground

SpecBg == InitBg /\ [][NextBg]_vars

(* The locations of the rows of a frame, as a bag.                           *)
locations(rows) ==
    LET at(la, lo) == {i \in DOMAIN rows : /\ rows[i].latitude = la
                                           /\ rows[i].longitude = lo}
    IN  [q \in (0..3) \X (0..3) |-> Cardinality(at(q[1], q[2]))]

(* C21: generate_background_events returns only from a batch that left       *)
(* exactly n_background points, and then returns n_background events, the    *)
(* points of that batch, each inside the polygon and timed within            *)
(* [timewindow_start, timewindow_end]; a batch that left another number of   *)
(* points is replaced as a whole and nothing is returned.                    *)
C21_ReturnsExactlyTheRealizedCount ==
    [][/\ bg_pc' = "returned" =>
              /\ Len(bg_catalog) = bg_n_background
              /\ Len(bg_returned') = bg_n_background
              /\ locations(bg_returned') = locations(bg_catalog)
              /\ \A e \in Range(bg_returned') :
                     /\ intersects_ell(e.latitude, e.longitude)
                     /\ bg_start <= e.time
                     /\ e.time <= sc_simulation_end
       /\ (bg_pc = "while" /\ Len(bg_catalog) # bg_n_background) =>
              /\ bg_pc' = "while"
              /\ bg_returned' = <<>>
              /\ bg_retried']_vars

C21_Witness ==
    /\ bg_pc = "returned"
    /\ bg_retried
    /\ bg_n_background = 2
    /\ Len(bg_returned) = 2
    /\ bg_returned[1].time < bg_returned[2].time

(* C22: with a background-probability field, every location                  *)
(* generate_background_events returns was drawn from the field, retries      *)
(* included.                                                                 *)
C22_LocationsFromTheField ==
    (bg_pc = "returned" /\ bg_probs) =>
        \A q \in Range(bg_catalog) : q.origin = "field"

-----------------------------------------------------------------------------
(* Properties of simulate and of the drains                                  *)

CeilDiv(a, b) == (a + b - 1) \div b

(* The realization ids lo, lo + 1, ..., hi - 1 as a sequence.                *)
IdRange(lo, hi) == [j \in 1..(hi - lo) |-> lo + j - 1]

(* C1: a finished simulate(n, c) has emitted exactly ceil(n / c) chunks,     *)
(* chunk k covering the c consecutive realizations (k-1)c .. kc-1 and the    *)
(* last chunk the remaining ones.                                            *)
C1_ChunksOfChunksize ==
    pc = "done" =>
        /\ Len(chunks) = CeilDiv(n_simulations, chunksize)
        /\ \A k \in 1..Len(chunks) :
             chunks[k].sims =
                IdRange((k - 1) * chunksize,
                        IF k * chunksize < n_simulations
                        THEN k * chunksize ELSE n_simulations)

(* The realizations drawn so far, each tagged with its id.                   *)
all_tagged == Flatten([k \in 1..Len(drawn) |-> tag(drawn[k], k - 1)])

(* C2: when simulate has finished, the chunks concatenated are the output of *)
(* one emission over all n realizations together, and the realization ids    *)
(* of the chunks, concatenated, are 0, 1, ..., n-1: each in exactly one      *)
(* chunk, in order.                                                          *)
C2_ConcatEqualsUnchunked ==
    pc = "done" =>
        /\ Flatten([k \in 1..Len(chunks) |-> chunks[k].rows]) =
             select_cols(emit(all_tagged, m_threshold,
                              inversion_params.delta_m, Val(simulation_end)),
                         n_simulations)
        /\ Flatten([k \in 1..Len(chunks) |-> chunks[k].sims]) =
             IdRange(0, n_simulations)

C2_Witness ==
    /\ pc = "done"
    /\ n_simulations = 3
    /\ chunksize = 2
    /\ Len(chunks) >= 2
    /\ \A k \in 1..Len(chunks) : chunks[k].rows # <<>>
    /\ Len(Flatten([k \in 1..Len(chunks) |-> chunks[k].rows]))
         < Len(Flatten(drawn))

(* The three filters, stated on an event as simulated.                       *)
threshold == IF m_threshold = None THEN m_ref ELSE Val(m_threshold)

passes(t, m, lat, lon) ==
    /\ primary_start <= t
    /\ t <= Val(simulation_end)
    /\ 2 * m >= 2 * threshold - inversion_params.delta_m
    /\ Intersects(lat, lon, polygon)

(* The events of the realizations `ids` that pass the three filters, in      *)
(* order, as (time, simulated magnitude, latitude, longitude, id).           *)
passing(ids) ==
    Flatten([j \in 1..Len(ids) |->
        LET c == drawn[ids[j] + 1]
            kept == SelectSeq(c, LAMBDA e :
                        passes(e.time, e.magnitude, e.latitude, e.longitude))
        IN  [i \in 1..Len(kept) |->
                <<kept[i].time, kept[i].magnitude, kept[i].latitude,
                  kept[i].longitude, ids[j]>>]])

(* C3: every row of every emitted chunk passes the time, magnitude and       *)
(* polygon filters (on the magnitude as simulated), and every event of a     *)
(* realization accumulated in the chunk that passes them is a row of it.     *)
C3_ChunkIsExactlyTheFiltered ==
    \A k \in 1..Len(chunks) :
        /\ \A i \in 1..Len(chunks[k].rows) :
             LET r == chunks[k].rows[i]
             IN  passes(r.time, r.sim_magnitude, r.latitude, r.longitude)
        /\ [i \in 1..Len(chunks[k].rows) |->
              LET r == chunks[k].rows[i]
              IN  <<r.time, r.sim_magnitude, r.latitude, r.longitude>>]
           = [i \in 1..Len(passing(chunks[k].sims)) |->
                SubSeq(passing(chunks[k].sims)[i], 1, 4)]

C3_Witness ==
    \E k \in 1..Len(chunks) :
        /\ Len(chunks[k].sims) = 2
        /\ chunks[k].rows # <<>>
        /\ Len(chunks[k].rows)
             < Len(Flatten([j \in 1..2 |-> drawn[chunks[k].sims[j] + 1]]))
        /\ m_threshold = None
        /\ \E i \in 1..Len(chunks[k].rows) :
             2 * chunks[k].rows[i].sim_magnitude
                = 2 * m_ref - inversion_params.delta_m

(* A magnitude rounded to the bin width dm, ties up.                         *)
round_to_bin(m, dm) == dm * ((2 * m + dm) \div (2 * dm))

(* C4: every emitted magnitude is the simulated magnitude rounded to the     *)
(* declared bin width delta_m, ties up, and the simulated magnitude is at    *)
(* least threshold - delta_m / 2.                                            *)
C4_RoundedToDeclaredBin ==
    \A k \in 1..Len(chunks) : \A i \in 1..Len(chunks[k].rows) :
        LET r == chunks[k].rows[i]
        IN  /\ 2 * r.sim_magnitude >= 2 * threshold - inversion_params.delta_m
            /\ r.magnitude = round_to_bin(r.sim_magnitude,
                                          inversion_params.delta_m)

(* C6: once the drain has written k >= 1 chunks the file is one header line  *)
(* followed by the rows of chunks 1..k in order, whatever it held before,    *)
(* also after the drain was aborted; before the first write it is untouched. *)
C6_FileIsHeaderThenChunks ==
    /\ written = 0 => file = <<stale_line>>
    /\ written >= 1 =>
         file = <<header_line>>
                  \o Flatten([k \in 1..written |-> row_lines(chunks[k].rows)])

C6_Witness ==
    /\ pc = "aborted"
    /\ written = 2
    /\ chunks[1].rows # <<>>
    /\ chunks[2].rows # <<>>
    /\ Len(chunks) = 3

(* C8: realizations are drawn only by an orchestrator whose prepare() has    *)
(* completed (which is when target_events is set).                           *)
C8_SimulateOnlyWhenPrepared ==
    drawn # <<>> => target_events # None

-----------------------------------------------------------------------------
(* Properties of prepare                                                     *)

(* Rows of the real catalog that carry the index i.                          *)
partners_of(i) ==
    Cardinality({k \in 1..Len(inversion_params.catalog) :
                    inversion_params.catalog[k].index = i})

rows_after_merge ==
    SumSeq([j \in 1..Len(inversion_params.source_events) |->
        LET p == partners_of(inversion_params.source_events[j].index)
        IN  IF p = 0 THEN 1 ELSE p])

source_magnitudes ==
    {inversion_params.catalog[k].magnitude :
        k \in {k \in 1..Len(inversion_params.catalog) :
                \E j \in 1..Len(inversion_params.source_events) :
                    inversion_params.source_events[j].index
                        = inversion_params.catalog[k].index}}

(* C7: prepare() fails exactly when the merge changes the number of rows or  *)
(* the smallest magnitude of the merged sources is not m_ref; otherwise the  *)
(* target events kept are exactly those with magnitude >= m_ref - delta_m/2  *)
(* inside the polygon, in their order.                                       *)
C7_PrepareChecksAndTargets ==
    prepare_result # "none" =>
        /\ prepare_result = "AssertionError" <=>
             \/ rows_after_merge # Len(inversion_params.source_events)
             \/ source_magnitudes = {}
             \/ MinOf(source_magnitudes) # m_ref
        /\ prepare_result = "ok" =>
             /\ target_events # None
             /\ \A t \in Range(inversion_params.target_events) :
                  t \in Range(Val(target_events)) <=>
                     /\ 2 * t.magnitude >= 2 * m_ref - inversion_params.delta_m
                     /\ 0 <= t.latitude /\ t.latitude <= 2
                     /\ 0 <= t.longitude /\ t.longitude <= 2
             /\ Range(Val(target_events))
                  \subseteq Range(inversion_params.target_events)

C7_Witness ==
    /\ prepare_result = "ok"
    /\ \E j \in 1..Len(inversion_params.source_events) :
         partners_of(inversion_params.source_events[j].index) = 0
    /\ Len(Val(target_events)) = 2
    /\ \E t \in Range(Val(target_events)) :
         2 * t.magnitude = 2 * m_ref - inversion_params.delta_m

(* C14: the buffer never holds more than chunksize realizations, it is empty *)
(* when the generator goes on after an emission, and no realization is part  *)
(* of two chunks.                                                            *)
C14_BufferBoundedAndCleared ==
    /\ Len(buffered) <= chunksize
    /\ \A i, j \in DOMAIN buffered : i # j => buffered[i] # buffered[j]
    /\ \A k \in DOMAIN simulations :
           simulations[k].catalog_id \in Range(buffered)
    /\ (pc \in {"loop", "done"} /\ sim_id > 0
            /\ emits(sim_id - 1, n_simulations, chunksize)) =>
           simulations = <<>> /\ buffered = <<>>
    /\ \A a, b \in DOMAIN chunks :
           a # b => Range(chunks[a].sims) \cap Range(chunks[b].sims) = {}

C14_Witness ==
    /\ pc = "done"
    /\ Len(chunks) >= 2
    /\ \E a \in DOMAIN chunks :
         /\ Len(chunks[a].sims) = chunksize
         /\ chunksize >= 2
         /\ chunks[a].rows # <<>>

(* C29: after a prepare() that failed its checks the orchestrator is as      *)
(* before the call, source_events, catalog and target_events unset, and no   *)
(* realization is drawn from the catalog that failed.                        *)
C29_FailedPrepareLeavesNoState ==
    prepare_result = "AssertionError" =>
        /\ source_events = None
        /\ catalog = None
        /\ target_events = None
        /\ drawn = <<>>

(* C30: when the drain has run to its end, for n_simulations = 0 as well, it *)
(* ended without error, the file was created anew and begins with the        *)
(* header, and for n_simulations >= 1 at least one chunk was emitted, the    *)
(* last of them by the final realization.                                    *)
C30_DrainAlwaysCreatesTheFile ==
    pc \in {"done", "StopIteration"} =>
        /\ pc = "done"
        /\ file # <<>>
        /\ file[1] = header_line
        /\ stale_line \notin Range(file)
        /\ n_simulations >= 1 =>
               /\ Len(chunks) >= 1
               /\ written = Len(chunks)
               /\ chunks[Len(chunks)].sims[Len(chunks[Len(chunks)].sims)]
                      = n_simulations - 1

=============================================================================
